---------------------------- MODULE Spec2Model ----------------------------
(***************************************************************************)
(* Model of generate_recommendations (src/app.py, lines 16-115): one       *)
(* synchronous POST to the text-generation endpoint, followed by the       *)
(* parsing of the answer and the mapping of every failure to a string.     *)
(*                                                                         *)
(* The transport (requests.post) and the endpoint are the environment:     *)
(* the POST either binds a response (any status, any body) or raises an    *)
(* exception of the requests hierarchy or any other exception.             *)
(*                                                                         *)
(* Python strings are sequences of tokens; text that the server supplies   *)
(* (reason phrase, raw body, candidate text) is an opaque token.           *)
(* Python values are records [ty, val] so that a returned None or number   *)
(* is told apart from a returned string.                                   *)
(***************************************************************************)
EXTENDS Integers, Sequences, FiniteSets, TLC

VARIABLES
    pc,         \* position of the control flow
    environ,    \* os.environ, restricted to HTTP_PROXY / HTTPS_PROXY
    proxies,    \* local `proxies` (line 56)
    request,    \* what the last requests.post call was handed
    posts,      \* number of requests.post calls of the current invocation
    response,   \* local `response` (line 75), possibly unbound
    parsed,     \* response.json() was called (line 83)
    exc,        \* exception in flight inside the try block
    handler,    \* except clause that handled the exception in flight
    ret,        \* value returned to the caller
    raised,     \* exception that propagated past the function
    calls       \* invocations so far

vars == <<pc, environ, proxies, request, posts, response, parsed, exc,
          handler, ret, raised, calls>>

(***************************************************************************)
(* Bounds                                                                  *)
(***************************************************************************)
MaxCalls == 2
MaxTexts == 2

(***************************************************************************)
(* Python values and strings                                               *)
(***************************************************************************)
PyStr(tokens) == [ty |-> "str", val |-> tokens]
PyNone == [ty |-> "NoneType", val |-> <<>>]
PyInt == [ty |-> "int", val |-> <<"7">>]
NoValue == [ty |-> "unset", val |-> <<>>]

Range(s) == {s[i] : i \in 1..Len(s)}
Contains(v, token) == token \in Range(v.val)
IsSubSeq(s, t) ==
    \E i \in 0..(Len(t) - Len(s)) : \A j \in 1..Len(s) : t[i + j] = s[j]
StartsWith(v, s) ==
    /\ Len(v.val) >= Len(s)
    /\ \A j \in 1..Len(s) : v.val[j] = s[j]

(***************************************************************************)
(* Environment and proxy configuration (lines 56-60)                       *)
(***************************************************************************)
ProxyVars == {"HTTP_PROXY", "HTTPS_PROXY"}
EnvValues == {"", "http://proxy-a:8080", "http://proxy-b:3128"}
Environments == UNION {[S -> EnvValues] : S \in SUBSET ProxyVars}

\* os.environ.get(name) is truthy
EnvTruthy(env, name) == name \in DOMAIN env /\ env[name] # ""

BuildProxiesNoEmptyCheck(env) ==
    [k \in {x \in {"http", "https"} :
                \/ x = "http" /\ "HTTP_PROXY" \in DOMAIN env
                \/ x = "https" /\ "HTTPS_PROXY" \in DOMAIN env}
        |-> IF k = "http" THEN env["HTTP_PROXY"] ELSE env["HTTPS_PROXY"]]

BuildProxies(env) ==
    [k \in {x \in {"http", "https"} :
                \/ x = "http" /\ EnvTruthy(env, "HTTP_PROXY")
                \/ x = "https" /\ EnvTruthy(env, "HTTPS_PROXY")}
        |-> IF k = "http" THEN env["HTTP_PROXY"] ELSE env["HTTPS_PROXY"]]

NoProxies == [k \in {} |-> ""]
NoRequest == [sent |-> FALSE, proxies |-> NoProxies]

(***************************************************************************)
(* Response bodies.  A body either is no JSON, or is a JSON document       *)
(* described along the path the code walks:                                *)
(*   result . candidates [0] . content . parts [0] . text                  *)
(* by the kind of the value found at each level ("na" below a level that   *)
(* holds no container, "missing" for a key the object does not have).      *)
(***************************************************************************)
Falsy == {"missing", "null", "zero", "emptystr", "emptylist", "emptyobj"}
ValueKinds == {"null", "zero", "emptystr", "emptylist", "emptyobj",
               "num", "str", "list", "obj"}
KeyKinds == ValueKinds \cup {"missing"}
TextKinds == {"missing", "null", "emptystr", "num", "str"}
Texts == {ToString(i) : i \in 1..MaxTexts}
RawTexts == {"raw-a", "raw-b"}

Truthy(k) == k \notin Falsy
HasGet(k) == k \in {"obj", "emptyobj"}
HasLen(k) == k \in {"emptystr", "emptylist", "emptyobj", "str", "list", "obj"}

Doc(json, top, cand, c0, content, parts, p0, text, txt, raw) ==
    [json |-> json, top |-> top, cand |-> cand, c0 |-> c0,
     content |-> content, parts |-> parts, p0 |-> p0, text |-> text,
     txt |-> txt, raw |-> raw]

NoBody == Doc(FALSE, "na", "na", "na", "na", "na", "na", "na", "", "")

JsonDocs(raw) ==
    {Doc(TRUE, t, "na", "na", "na", "na", "na", "na", "", raw) :
        t \in ValueKinds \ {"obj"}}
    \cup
    {Doc(TRUE, "obj", c, "na", "na", "na", "na", "na", "", raw) :
        c \in KeyKinds \ {"list"}}
    \cup
    {Doc(TRUE, "obj", "list", e, "na", "na", "na", "na", "", raw) :
        e \in ValueKinds \ {"obj"}}
    \cup
    {Doc(TRUE, "obj", "list", "obj", c, "na", "na", "na", "", raw) :
        c \in KeyKinds \ {"obj"}}
    \cup
    {Doc(TRUE, "obj", "list", "obj", "obj", p, "na", "na", "", raw) :
        p \in KeyKinds \ {"list"}}
    \cup
    {Doc(TRUE, "obj", "list", "obj", "obj", "list", e, "na", "", raw) :
        e \in ValueKinds \ {"obj"}}
    \cup
    {Doc(TRUE, "obj", "list", "obj", "obj", "list", "obj", x, "", raw) :
        x \in TextKinds \ {"str"}}
    \cup
    {Doc(TRUE, "obj", "list", "obj", "obj", "list", "obj", "str", x, raw) :
        x \in Texts}

Bodies ==
    {Doc(FALSE, "na", "na", "na", "na", "na", "na", "na", "", raw) :
        raw \in RawTexts}
    \cup JsonDocs("raw-json")

Statuses == {101, 200, 204, 304, 400, 401, 404, 407, 429, 500, 503, 599, 600}

NoResponse == [bound |-> FALSE, status |-> 0, body |-> NoBody]


(***************************************************************************)
(* response.raise_for_status() (line 81): requests raises HTTPError for    *)
(* the statuses 400-599 and for no other.                                  *)
(***************************************************************************)
RaisesForStatusServerOnly(status) == 500 <= status /\ status < 600

RaisesForStatus(status) == 400 <= status /\ status < 600

\* str(http_err) as raise_for_status builds it
HttpErrorText(status) ==
    <<ToString(status),
      IF status < 500 THEN " Client Error: " ELSE " Server Error: ",
      "<reason>", " for url: ", "<url>">>

(***************************************************************************)
(* Extraction of the text (lines 86-93), with Python's semantics of        *)
(* .get, truthiness, len and [0] on the kinds of JSON values.              *)
(***************************************************************************)
NoRecommendations ==
    PyStr(<<"No recommendations could be generated. The AI response was empty or malformed.">>)
NoTextFound == PyStr(<<"No text found.">>)

Returns(v) == [out |-> "return", val |-> v, exc |-> "none"]
Raises(cls) == [out |-> "raise", val |-> NoValue, exc |-> cls]

\* d.get(key) on a value of kind `parent` whose key holds kind `child`
Field(parent, child) == IF parent = "obj" THEN child ELSE "missing"

\* kind of x[0] for a truthy x of kind k whose first element has kind elem
FirstKind(k, elem) == IF k = "list" THEN elem ELSE "str"

TextValue(kind, txt) ==
    CASE kind = "str" -> PyStr(<<txt>>)
      [] kind = "emptystr" -> PyStr(<<>>)
      [] kind = "null" -> PyNone
      [] OTHER -> PyInt

\* .get("text", "No text found.") (line 90)
GetTextOrDefault(kind, txt) ==
    IF Truthy(kind) THEN TextValue(kind, txt) ELSE NoTextFound

GetText(kind, txt) ==
    IF kind = "missing" THEN NoTextFound ELSE TextValue(kind, txt)

\* line 90, reached with `parts` truthy and sized
ReadText(b) ==
    LET first == FirstKind(b.parts, b.p0) IN
    IF b.parts = "obj" THEN Raises("KeyError")
    ELSE IF ~HasGet(first) THEN Raises("AttributeError")
    ELSE Returns(GetText(Field(first, b.text), b.txt))

ExtractNoContentCheck(b) ==
    LET cand == Field(b.top, b.cand)
        first == FirstKind(cand, b.c0)
        content == Field(first, b.content)
        parts == Field(content, b.parts)
    IN  IF ~HasGet(b.top) THEN Raises("AttributeError")
        ELSE IF ~Truthy(cand) THEN Returns(NoRecommendations)
        ELSE IF ~HasLen(cand) THEN Raises("TypeError")
        ELSE IF cand = "obj" THEN Raises("KeyError")
        ELSE IF ~HasGet(first) THEN Raises("AttributeError")
        ELSE IF content = "missing" THEN Raises("KeyError")
        ELSE IF ~HasGet(content) THEN Raises("AttributeError")
        ELSE IF ~Truthy(parts) THEN Returns(NoRecommendations)
        ELSE IF ~HasLen(parts) THEN Raises("TypeError")
        ELSE ReadText(b)

Extract(b) ==
    LET cand == Field(b.top, b.cand)
        first == FirstKind(cand, b.c0)
        content == Field(first, b.content)
        parts == Field(content, b.parts)
    IN  IF ~HasGet(b.top) THEN Raises("AttributeError")
        ELSE IF ~Truthy(cand) THEN Returns(NoRecommendations)
        ELSE IF ~HasLen(cand) THEN Raises("TypeError")
        ELSE IF cand = "obj" THEN Raises("KeyError")
        ELSE IF ~HasGet(first) THEN Raises("AttributeError")
        ELSE IF ~Truthy(content) THEN Returns(NoRecommendations)
        ELSE IF ~HasGet(content) THEN Raises("AttributeError")
        ELSE IF ~Truthy(parts) THEN Returns(NoRecommendations)
        ELSE IF ~HasLen(parts) THEN Raises("TypeError")
        ELSE ReadText(b)

(***************************************************************************)
(* Exceptions.  Ancestors(cls) are the classes named by the except clauses *)
(* (lines 95-114) that cls is an instance of.                              *)
(***************************************************************************)
TransportErrors ==
    {"HTTPError", "ConnectionError", "ConnectTimeout", "ReadTimeout",
     "TooManyRedirects", "OSError"}

\* what response.json() raises on a body that is no JSON: requests >= 2.27
\* raises requests.exceptions.JSONDecodeError; older versions raise the
\* decoder's own error, json.JSONDecodeError or simplejson's.
DecoderErrors ==
    {"requests.JSONDecodeError", "json.JSONDecodeError",
     "simplejson.JSONDecodeError"}

Ancestors(cls) ==
    CASE cls = "HTTPError" -> {"HTTPError", "RequestException", "Exception"}
      [] cls = "ConnectionError" ->
            {"ConnectionError", "RequestException", "Exception"}
      [] cls = "ConnectTimeout" ->
            {"ConnectionError", "Timeout", "RequestException", "Exception"}
      [] cls = "ReadTimeout" -> {"Timeout", "RequestException", "Exception"}
      [] cls = "TooManyRedirects" -> {"RequestException", "Exception"}
      [] cls = "requests.JSONDecodeError" ->
            {"RequestException", "JSONDecodeError", "Exception"}
      [] cls = "json.JSONDecodeError" -> {"JSONDecodeError", "Exception"}
      [] OTHER -> {"Exception"}

ExceptClausesTimeoutFirst ==
    <<"HTTPError", "Timeout", "ConnectionError", "RequestException",
      "JSONDecodeError", "Exception">>

\* the except clauses in source order
ExceptClauses ==
    <<"HTTPError", "ConnectionError", "Timeout", "RequestException",
      "JSONDecodeError", "Exception">>

\* the first clause that matches: the one Python runs
HandlerFor(cls) ==
    LET i == CHOOSE k \in 1..Len(ExceptClauses) :
                /\ ExceptClauses[k] \in Ancestors(cls)
                /\ \A j \in 1..(k - 1) : ExceptClauses[j] \notin Ancestors(cls)
    IN  ExceptClauses[i]

\* str(e) of the exception in flight
ErrText(cls) == <<"<", cls, ">">>

(***************************************************************************)
(* The status suffix of the HTTPError handler (lines 97-104)               *)
(***************************************************************************)
BadRequestSuffix == <<" - ", "Bad Request", ". Check your input or ", "API key", ".">>
UnauthorizedSuffix == <<" - ", "Unauthorized", ". Check your ", "API key", ".">>
ProxyAuthSuffix ==
    <<" - ", "Proxy Authentication Required",
      ". Please check your proxy settings and credentials.">>
TooManySuffix == <<" - ", "Too Many Requests", ". Rate limit exceeded.">>

StatusSuffixShifted(status) ==
    CASE status = 400 -> BadRequestSuffix
      [] status = 401 -> ProxyAuthSuffix
      [] status = 407 -> UnauthorizedSuffix
      [] status = 429 -> TooManySuffix
      [] OTHER -> <<>>

StatusSuffix(status) ==
    CASE status = 400 -> BadRequestSuffix
      [] status = 401 -> UnauthorizedSuffix
      [] status = 407 -> ProxyAuthSuffix
      [] status = 429 -> TooManySuffix
      [] OTHER -> <<>>

\* lines 96-105
HttpErrorMessage(resp) ==
    PyStr(<<"Failed to generate recommendations: ", "HTTP error occurred: ">>
          \o HttpErrorText(resp.status) \o StatusSuffix(resp.status)
          \o <<". Response: ", resp.body.raw>>)

ConnectionMessage(cls) ==
    PyStr(<<"Failed to connect to the API: ">> \o ErrText(cls)
          \o <<". Check your internet connection or proxy settings.">>)
TimeoutMessage(cls) ==
    PyStr(<<"API request timed out: ">> \o ErrText(cls) \o <<".">>)
RequestMessage(cls) ==
    PyStr(<<"An unexpected error occurred during the API request: ">>
          \o ErrText(cls) \o <<".">>)
ParseMessage(cls, resp) ==
    PyStr(<<"Failed to parse API response: ">> \o ErrText(cls)
          \o <<". Response: ", resp.body.raw>>)
UnexpectedMessage(cls) ==
    PyStr(<<"An unexpected error occurred: ">> \o ErrText(cls))

(***************************************************************************)
(* State machine                                                           *)
(***************************************************************************)
Init ==
    /\ pc = "idle"
    /\ environ \in Environments
    /\ proxies = NoProxies
    /\ request = NoRequest
    /\ posts = 0
    /\ response = NoResponse
    /\ parsed = FALSE
    /\ exc = "none"
    /\ handler = "none"
    /\ ret = NoValue
    /\ raised = "none"
    /\ calls = 0

\* line 144: the caller invokes generate_recommendations; locals are fresh
Call ==
    /\ pc = "idle"
    /\ calls < MaxCalls
    /\ calls' = calls + 1
    /\ pc' = "proxies"
    /\ proxies' = NoProxies
    /\ request' = NoRequest
    /\ posts' = 0
    /\ response' = NoResponse
    /\ parsed' = FALSE
    /\ exc' = "none"
    /\ handler' = "none"
    /\ ret' = NoValue
    /\ raised' = "none"
    /\ UNCHANGED environ

\* lines 56-60
ConfigureProxies ==
    /\ pc = "proxies"
    /\ proxies' = BuildProxies(environ)
    /\ pc' = "post"
    /\ UNCHANGED <<environ, request, posts, response, parsed, exc, handler,
                   ret, raised, calls>>

\* lines 75-80, the endpoint answers: `response` is bound
PostResponds ==
    /\ pc = "post"
    /\ posts' = posts + 1
    /\ request' = [sent |-> TRUE, proxies |-> proxies]
    /\ \E status \in Statuses, body \in Bodies :
          response' = [bound |-> TRUE, status |-> status, body |-> body]
    /\ pc' = "raise_for_status"
    /\ UNCHANGED <<environ, proxies, parsed, exc, handler, ret, raised, calls>>

\* lines 75-80, requests.post raises: `response` stays unbound
PostRaises ==
    /\ pc = "post"
    /\ posts' = posts + 1
    /\ request' = [sent |-> TRUE, proxies |-> proxies]
    /\ \E cls \in TransportErrors : exc' = cls
    /\ pc' = "except"
    /\ UNCHANGED <<environ, proxies, response, parsed, handler, ret, raised,
                   calls>>

\* line 81
RaiseForStatus ==
    /\ pc = "raise_for_status"
    /\ IF RaisesForStatus(response.status)
          THEN exc' = "HTTPError" /\ pc' = "except"
          ELSE exc' = exc /\ pc' = "json"
    /\ UNCHANGED <<environ, proxies, request, posts, response, parsed,
                   handler, ret, raised, calls>>

\* line 83
ParseJson ==
    /\ pc = "json"
    /\ parsed' = TRUE
    /\ IF response.body.json
          THEN exc' = exc /\ pc' = "extract"
          ELSE (\E cls \in DecoderErrors : exc' = cls) /\ pc' = "except"
    /\ UNCHANGED <<environ, proxies, request, posts, response, handler, ret,
                   raised, calls>>

\* lines 86-93
ExtractText ==
    /\ pc = "extract"
    /\ LET o == Extract(response.body) IN
          IF o.out = "return"
             THEN ret' = o.val /\ exc' = exc /\ pc' = "done"
             ELSE ret' = ret /\ exc' = o.exc /\ pc' = "except"
    /\ UNCHANGED <<environ, proxies, request, posts, response, parsed,
                   handler, raised, calls>>

\* lines 95-105; reading `response` while it is unbound raises
\* UnboundLocalError out of the handler, hence out of the function
HandleHTTPError ==
    /\ pc = "except"
    /\ HandlerFor(exc) = "HTTPError"
    /\ handler' = "HTTPError"
    /\ IF response.bound
          THEN ret' = HttpErrorMessage(response) /\ raised' = raised
          ELSE ret' = ret /\ raised' = "UnboundLocalError"
    /\ pc' = "done"
    /\ UNCHANGED <<environ, proxies, request, posts, response, parsed, exc,
                   calls>>

HandleConnectionErrorRetry ==
    /\ pc = "except"
    /\ HandlerFor(exc) = "ConnectionError"
    /\ handler' = "ConnectionError"
    /\ pc' = "post"
    /\ UNCHANGED <<environ, proxies, request, posts, response, parsed, exc,
                   ret, raised, calls>>

\* lines 106-107
HandleConnectionError ==
    /\ pc = "except"
    /\ HandlerFor(exc) = "ConnectionError"
    /\ handler' = "ConnectionError"
    /\ ret' = ConnectionMessage(exc)
    /\ pc' = "done"
    /\ UNCHANGED <<environ, proxies, request, posts, response, parsed, exc,
                   raised, calls>>

\* lines 108-109
HandleTimeout ==
    /\ pc = "except"
    /\ HandlerFor(exc) = "Timeout"
    /\ handler' = "Timeout"
    /\ ret' = TimeoutMessage(exc)
    /\ pc' = "done"
    /\ UNCHANGED <<environ, proxies, request, posts, response, parsed, exc,
                   raised, calls>>

\* lines 110-111
HandleRequestException ==
    /\ pc = "except"
    /\ HandlerFor(exc) = "RequestException"
    /\ handler' = "RequestException"
    /\ ret' = RequestMessage(exc)
    /\ pc' = "done"
    /\ UNCHANGED <<environ, proxies, request, posts, response, parsed, exc,
                   raised, calls>>

\* lines 112-113
HandleJSONDecodeError ==
    /\ pc = "except"
    /\ HandlerFor(exc) = "JSONDecodeError"
    /\ handler' = "JSONDecodeError"
    /\ IF response.bound
          THEN ret' = ParseMessage(exc, response) /\ raised' = raised
          ELSE ret' = ret /\ raised' = "UnboundLocalError"
    /\ pc' = "done"
    /\ UNCHANGED <<environ, proxies, request, posts, response, parsed, exc,
                   calls>>

\* lines 114-115
HandleException ==
    /\ pc = "except"
    /\ HandlerFor(exc) = "Exception"
    /\ handler' = "Exception"
    /\ ret' = UnexpectedMessage(exc)
    /\ pc' = "done"
    /\ UNCHANGED <<environ, proxies, request, posts, response, parsed, exc,
                   raised, calls>>

\* lines 145-146: the caller renders the returned value, or the fault
\* surfaces in the page; either way the script run ends
Render ==
    /\ pc = "done"
    /\ pc' = "idle"
    /\ UNCHANGED <<environ, proxies, request, posts, response, parsed, exc,
                   handler, ret, raised, calls>>

Next ==
    \/ Call
    \/ ConfigureProxies
    \/ PostResponds
    \/ PostRaises
    \/ RaiseForStatus
    \/ ParseJson
    \/ ExtractText
    \/ HandleHTTPError
    \/ HandleConnectionError
    \/ HandleTimeout
    \/ HandleRequestException
    \/ HandleJSONDecodeError
    \/ HandleException
    \/ Render

Spec == Init /\ [][Next]_vars


(***************************************************************************)
(* Properties                                                              *)
(***************************************************************************)
Done == pc = "done"
Answered == pc = "done" /\ response.bound
Success == response.status \in 200..299
PathPresent ==
    /\ response.body.json
    /\ response.body.p0 = "obj"
    /\ response.body.text \in TextKinds \ {"missing"}

\* C1: whatever the POST's outcome, generate_recommendations ends by
\* returning a string; no exception propagates past the function.
C1_AlwaysReturnsString == Done => (raised = "none" /\ ret.ty = "str")

\* C2 (as stated): for every status outside 200-299 the body is not parsed
\* and the 'Failed to generate recommendations: ...' string with the status
\* and the raw body is returned.
C2_EveryNon2xxIsClassified ==
    (Answered /\ ~Success) =>
        /\ ~parsed
        /\ raised = "none"
        /\ StartsWith(ret, <<"Failed to generate recommendations: ">>)
        /\ Contains(ret, ToString(response.status))
        /\ Contains(ret, response.body.raw)

\* C2 (amended): for every status 400-599 the body is not parsed and the
\* 'Failed to generate recommendations: ...' string with the status and the
\* raw body is returned.
C2_ErrorStatusIsClassified ==
    (Answered /\ response.status \in 400..599) =>
        /\ ~parsed
        /\ raised = "none"
        /\ StartsWith(ret, <<"Failed to generate recommendations: ">>)
        /\ Contains(ret, ToString(response.status))
        /\ Contains(ret, response.body.raw)
        /\ ret.val[Len(ret.val)] = response.body.raw

C2_Witness ==
    /\ Answered
    /\ response.status = 404
    /\ StartsWith(ret, <<"Failed to generate recommendations: ">>)
    /\ Contains(ret, "raw-b")

\* C3: on 400, 401, 407, 429 the returned string carries the label of that
\* status (401: with 'API key') and the suffix of none of the other three;
\* on any other error status no status suffix is appended.
C3_OneSuffixPerStatus ==
    (Answered /\ handler = "HTTPError") =>
        /\ Contains(ret, "Bad Request") <=> response.status = 400
        /\ Contains(ret, "Unauthorized") <=> response.status = 401
        /\ Contains(ret, "Proxy Authentication Required")
              <=> response.status = 407
        /\ Contains(ret, "Too Many Requests") <=> response.status = 429
        /\ response.status = 401 => Contains(ret, "API key")
        /\ IsSubSeq(<<" - ", "Bad Request", ". Check your input or ",
                      "API key", ".">>, ret.val) <=> response.status = 400
        /\ IsSubSeq(<<" - ", "Unauthorized", ". Check your ", "API key",
                      ".">>, ret.val) <=> response.status = 401
        /\ IsSubSeq(<<" - ", "Proxy Authentication Required",
                      ". Please check your proxy settings and credentials.">>,
                    ret.val) <=> response.status = 407
        /\ IsSubSeq(<<" - ", "Too Many Requests", ". Rate limit exceeded.">>,
                    ret.val) <=> response.status = 429
        /\ response.status \notin {400, 401, 407, 429}
              => ~Contains(ret, " - ")

C3_Witness ==
    /\ Answered
    /\ response.status = 401
    /\ Contains(ret, "Unauthorized")
    /\ Contains(ret, "API key")
    /\ ~Contains(ret, "Too Many Requests")

\* C4: on 2xx with candidates[0].content.parts[0].text present, exactly that
\* text value is returned, with nothing before or after it.
C4_ReturnsTextUnmodified ==
    (Answered /\ Success /\ PathPresent) =>
        /\ raised = "none"
        /\ response.body.text = "str"
              => ret = [ty |-> "str", val |-> <<response.body.txt>>]
        /\ response.body.text = "emptystr"
              => ret = [ty |-> "str", val |-> <<>>]
        /\ response.body.text = "null" => ret.ty = "NoneType"
        /\ response.body.text = "num" => ret.ty = "int"

C4_Witness ==
    /\ Answered
    /\ response.status = 200
    /\ PathPresent
    /\ response.body.text = "str"
    /\ ret = [ty |-> "str", val |-> <<"2">>]

\* the levels of the path at which the value is missing or empty
CandidatesEmpty ==
    /\ response.body.json
    /\ HasGet(response.body.top)
    /\ Field(response.body.top, response.body.cand) \in Falsy
ContentEmpty ==
    /\ response.body.json
    /\ response.body.cand = "list"
    /\ HasGet(response.body.c0)
    /\ Field(response.body.c0, response.body.content) \in Falsy
PartsEmpty ==
    /\ response.body.json
    /\ response.body.content = "obj"
    /\ Field(response.body.content, response.body.parts) \in Falsy
TextMissing ==
    /\ response.body.json
    /\ response.body.parts = "list"
    /\ HasGet(response.body.p0)
    /\ Field(response.body.p0, response.body.text) = "missing"
TextEmpty ==
    /\ response.body.json
    /\ response.body.p0 = "obj"
    /\ response.body.text = "emptystr"

\* C5 (as stated): on 2xx with the path absent or empty at any level
\* (candidates, content, parts or the text field), the fixed 'No
\* recommendations could be generated...' message is returned.
C5_FixedMessageAtEveryLevel ==
    (Answered /\ Success /\
        (CandidatesEmpty \/ ContentEmpty \/ PartsEmpty \/ TextMissing
            \/ TextEmpty)) =>
        ret = NoRecommendations

\* C5 (amended): on 2xx with candidates, content or parts missing or empty
\* the fixed message is returned; with the text field missing 'No text
\* found.' is returned, and with the text field empty the empty string.
C5_FixedMessageAboveText ==
    (Answered /\ Success) =>
        /\ (CandidatesEmpty \/ ContentEmpty \/ PartsEmpty)
              => (ret = NoRecommendations /\ raised = "none")
        /\ TextMissing => ret = [ty |-> "str", val |-> <<"No text found.">>]
        /\ TextEmpty => ret = [ty |-> "str", val |-> <<>>]

C5_Witness ==
    /\ Answered
    /\ response.status = 200
    /\ ContentEmpty
    /\ response.body.content = "missing"
    /\ ret = NoRecommendations

\* C6 (as stated): a connection failure returns the 'Failed to connect to
\* the API' string and every timeout, connect timeout as well as read
\* timeout, returns the 'API request timed out' string.
C6_EveryTimeoutTimedOut ==
    Done =>
        /\ exc = "ConnectionError"
              => StartsWith(ret, <<"Failed to connect to the API: ">>)
        /\ exc \in {"ConnectTimeout", "ReadTimeout"}
              => StartsWith(ret, <<"API request timed out: ">>)

\* C6 (amended): a connection failure, a connect timeout included (it is a
\* ConnectionError as well as a Timeout), returns the 'Failed to connect to
\* the API ... Check your internet connection or proxy settings.' string;
\* a read timeout returns the 'API request timed out' string.
C6_TransportFailureByCategory ==
    Done =>
        /\ exc \in {"ConnectionError", "ConnectTimeout"}
              => /\ StartsWith(ret, <<"Failed to connect to the API: ">>)
                 /\ Contains(ret, ". Check your internet connection or proxy settings.")
                 /\ raised = "none"
        /\ exc = "ReadTimeout"
              => /\ StartsWith(ret, <<"API request timed out: ">>)
                 /\ raised = "none"

C6_Witness ==
    /\ Done
    /\ ~response.bound
    /\ exc = "ConnectTimeout"
    /\ StartsWith(ret, <<"Failed to connect to the API: ">>)

\* C7: on 2xx with a body that is no JSON, the 'Failed to parse API
\* response: ...' message is returned, whichever class the decoder raises.
C7_ParseErrorMessage ==
    (Answered /\ Success /\ ~response.body.json) =>
        StartsWith(ret, <<"Failed to parse API response: ">>)

\* C8: every invocation issues exactly one POST before it returns, on
\* every path: never zero, never a second one after a failure.
C8_ExactlyOnePost ==
    /\ posts <= 1
    /\ Done => posts = 1
    /\ request.sent <=> posts = 1

C8_Witness ==
    /\ Done
    /\ handler = "ConnectionError"
    /\ posts = 1

\* C9: the proxy configuration handed to the transport has an 'http' entry
\* equal to HTTP_PROXY exactly when HTTP_PROXY is set and non-empty, and an
\* 'https' entry equal to HTTPS_PROXY exactly when HTTPS_PROXY is set and
\* non-empty; with neither set it is empty.
C9_ProxiesFollowEnvironment ==
    request.sent =>
        /\ DOMAIN request.proxies \subseteq {"http", "https"}
        /\ "http" \in DOMAIN request.proxies
              <=> ("HTTP_PROXY" \in DOMAIN environ /\ environ["HTTP_PROXY"] # "")
        /\ "https" \in DOMAIN request.proxies
              <=> ("HTTPS_PROXY" \in DOMAIN environ /\ environ["HTTPS_PROXY"] # "")
        /\ "http" \in DOMAIN request.proxies
              => request.proxies["http"] = environ["HTTP_PROXY"]
        /\ "https" \in DOMAIN request.proxies
              => request.proxies["https"] = environ["HTTPS_PROXY"]

C9_Witness ==
    /\ request.sent
    /\ DOMAIN environ = {"HTTP_PROXY", "HTTPS_PROXY"}
    /\ environ["HTTPS_PROXY"] = ""
    /\ DOMAIN request.proxies = {"http"}
    /\ request.proxies["http"] = "http://proxy-b:3128"

=============================================================================
